---- MODULE Spec2Model ----
(***************************************************************************)
(* A model of the struct populator of steinfletcher/conf (conf.go) and of  *)
(* its environment provider (provider.go).                                 *)
(*                                                                         *)
(* Go strings are sequences of one-character strings, so that splitting,   *)
(* sign handling and digit parsing are computed as strings/strconv compute *)
(* them.  Integers are kept as a sign and a normalised sequence of decimal *)
(* digits, which is exact for every width up to 64 bits.                   *)
(***************************************************************************)
EXTENDS Integers, Sequences, FiniteSets, TLC

VARIABLES
    target,              \* the caller's value v handed to Parse / ParseWithFuncs
    defaultTypeParsers,  \* the package-level map conf.go:78 (type name -> parser)
    pc,                  \* "idle", or "parse" while Parse's loop over providers runs
    nWalks,              \* providers consumed so far by the running Parse call
    cur,                 \* provider of the most recent walk (NoProv before any)
    prev,                \* provider of the walk before it in the same Parse call
    ret,                 \* error value of the most recent walk / returned by the call
    log,                 \* what the most recent walk did, field by field
    call,                \* the public operation running or last run
    numIn, numOut,       \* input and result of one built-in numeric conversion
    envIn, envOut        \* input and result of one envProvider.Provide call

vars == <<target, defaultTypeParsers, pc, nWalks, cur, prev, ret, log, call,
          numIn, numOut, envIn, envOut>>

-----------------------------------------------------------------------------
(* strconv: ParseInt, ParseUint, ParseBool on character sequences.         *)

Digits == {"0", "1", "2", "3", "4", "5", "6", "7", "8", "9"}

DigitVal(c) ==
    CASE c = "0" -> 0 [] c = "1" -> 1 [] c = "2" -> 2 [] c = "3" -> 3
      [] c = "4" -> 4 [] c = "5" -> 5 [] c = "6" -> 6 [] c = "7" -> 7
      [] c = "8" -> 8 [] c = "9" -> 9

IsDigits(s) == \A i \in 1..Len(s) : s[i] \in Digits

RECURSIVE StripZeros(_)
StripZeros(d) == IF Len(d) > 1 /\ d[1] = 0 THEN StripZeros(Tail(d)) ELSE d

\* The magnitude a digit string denotes: its digits without leading zeros.
Mag(s) == StripZeros([i \in 1..Len(s) |-> DigitVal(s[i])])

\* a < b for two normalised magnitudes.
MagLess(a, b) ==
    \/ Len(a) < Len(b)
    \/ /\ Len(a) = Len(b)
       /\ \E i \in 1..Len(a) : a[i] < b[i] /\ \A j \in 1..(i - 1) : a[j] = b[j]

\* 2^bitSize - 1, the largest value ParseUint accepts for that bitSize.
MaxUint(bitSize) ==
    CASE bitSize = 8  -> <<2, 5, 5>>
      [] bitSize = 16 -> <<6, 5, 5, 3, 5>>
      [] bitSize = 32 -> <<4, 2, 9, 4, 9, 6, 7, 2, 9, 5>>
      [] bitSize = 64 -> <<1, 8, 4, 4, 6, 7, 4, 4, 0, 7, 3, 7, 0, 9, 5, 5, 1, 6, 1, 5>>

\* 2^(bitSize - 1), ParseInt's cutoff.
Cutoff(bitSize) ==
    CASE bitSize = 8  -> <<1, 2, 8>>
      [] bitSize = 16 -> <<3, 2, 7, 6, 8>>
      [] bitSize = 32 -> <<2, 1, 4, 7, 4, 8, 3, 6, 4, 8>>
      [] bitSize = 64 -> <<9, 2, 2, 3, 3, 7, 2, 0, 3, 6, 8, 5, 4, 7, 7, 5, 8, 0, 8>>

Zero == [neg |-> FALSE, mag |-> <<0>>]

SyntaxErr == [err |-> "syntax", val |-> Zero]
RangeErr == [err |-> "range", val |-> Zero]

\* strconv.ParseUint(s, 10, bitSize): digits only, no sign.
ParseUint(s, bitSize) ==
    IF s = <<>> \/ ~IsDigits(s) THEN SyntaxErr
    ELSE IF MagLess(MaxUint(bitSize), Mag(s)) THEN RangeErr
    ELSE [err |-> "none", val |-> [neg |-> FALSE, mag |-> Mag(s)]]

\* strconv.ParseInt(s, 10, bitSize): an optional sign, then ParseUint.
ParseInt(s, bitSize) ==
    IF s = <<>> THEN SyntaxErr
    ELSE LET neg == s[1] = "-"
             rest == IF s[1] \in {"+", "-"} THEN Tail(s) ELSE s
             un == ParseUint(rest, bitSize)
         IN  IF un.err # "none" THEN un
             ELSE IF ~neg /\ ~MagLess(un.val.mag, Cutoff(bitSize)) THEN RangeErr
             ELSE IF neg /\ MagLess(Cutoff(bitSize), un.val.mag) THEN RangeErr
             ELSE [err |-> "none",
                   val |-> [neg |-> neg /\ un.val.mag # <<0>>, mag |-> un.val.mag]]

\* strconv.ParseBool.
ParseBool(s) ==
    IF s \in {<<"1">>, <<"t">>, <<"T">>, <<"t", "r", "u", "e">>,
              <<"T", "R", "U", "E">>, <<"T", "r", "u", "e">>}
    THEN [err |-> "none", val |-> TRUE]
    ELSE IF s \in {<<"0">>, <<"f">>, <<"F">>, <<"f", "a", "l", "s", "e">>,
                   <<"F", "A", "L", "S", "E">>, <<"F", "a", "l", "s", "e">>}
    THEN [err |-> "none", val |-> FALSE]
    ELSE [err |-> "syntax", val |-> FALSE]

-----------------------------------------------------------------------------
(* defaultBuiltInParsers, conf.go:23-76.  The float kinds are left out: no *)
(* field of the modelled targets is a float.                               *)

SignedKinds == {"int", "int8", "int16", "int32", "int64"}
UnsignedKinds == {"uint", "uint8", "uint16", "uint32", "uint64"}
IntKinds == SignedKinds \cup UnsignedKinds
BuiltInKinds == IntKinds \cup {"bool", "string"}

\* The bitSize each built-in parser hands to strconv.
BuiltInBitSize(kind) ==
    CASE kind = "int"    -> 32
      [] kind = "int8"   -> 8
      [] kind = "int16"  -> 16
      [] kind = "int32"  -> 32
      [] kind = "int64"  -> 64
      [] kind = "uint"   -> 32
      [] kind = "uint8"  -> 8
      [] kind = "uint16" -> 16
      [] kind = "uint32" -> 32
      [] kind = "uint64" -> 64

defaultBuiltInParsers(kind, v) ==
    CASE kind = "bool" -> ParseBool(v)
      [] kind = "string" -> [err |-> "none", val |-> v]
      [] kind \in SignedKinds -> ParseInt(v, BuiltInBitSize(kind))
      [] kind \in UnsignedKinds -> ParseUint(v, BuiltInBitSize(kind))

-----------------------------------------------------------------------------
(* Errors.  Every error value has the same shape; NoErr is Go's nil.       *)

NoErr == [kind |-> "none", field |-> ""]
ErrNotAStructPtr == [kind |-> "notstructptr", field |-> ""]
newNoParserError(sf) == [kind |-> "noparser", field |-> sf.name]
ProviderErr(key) == [kind |-> "provider", field |-> key]
JSONErr == [kind |-> "json", field |-> ""]

\* newParseError, conf.go:323-331: nil stays nil.
newParseError(sf, err) ==
    IF err = "none" THEN NoErr ELSE [kind |-> "parse", field |-> sf.name]

-----------------------------------------------------------------------------
(* Types (reflect.Type) and field descriptors (reflect.StructField) of the *)
(* targets handed to Parse.  A struct value is the sequence of its field   *)
(* values, a pointer is <<>> (nil) or <<pointee>>, a slice is the sequence *)
(* of its elements.                                                        *)

Field(name, type, key, sep, exported) ==
    [name |-> name, type |-> type, key |-> key, sep |-> sep, exported |-> exported]

TInt8 == [kind |-> "int8", name |-> "int8"]
TString == [kind |-> "string", name |-> "string"]
\* type foo string: a named type a caller may register a custom parser for.
TFoo == [kind |-> "string", name |-> "foo"]
\* type textT string, with func (t *textT) UnmarshalText([]byte) error.
TText == [kind |-> "string", name |-> "textT"]
PtrTo(t) == [kind |-> "ptr", name |-> "", elem |-> t]
SliceOf(t) == [kind |-> "slice", name |-> "", elem |-> t]
StructOf(name, fields) == [kind |-> "struct", name |-> name, fields |-> fields]

\* type Nested struct { A int8 `env:"A"` }
TNested == StructOf("Nested", <<Field("A", TInt8, "A", <<>>, TRUE)>>)

\* The anonymous type struct { B int8 `env:"B"` }: its Type().Name() is "".
TAnon == StructOf("", <<Field("B", TInt8, "B", <<>>, TRUE)>>)

\* type Config struct {
\*     Port   int8     `env:"PORT"`
\*     Hosts  []string `env:"HOSTS" envSeparator:":"`
\*     Lvls   []textT  `env:"LVLS"`
\*     Inner  Nested   `env:"INNER"`
\*     hidden string   `env:"HIDDEN"`
\* }
TConfig ==
    StructOf("Config",
      << Field("Port",   TInt8,            "PORT",   <<>>,    TRUE),
         Field("Hosts",  SliceOf(TString), "HOSTS",  <<":">>, TRUE),
         Field("Lvls",   SliceOf(TText),   "LVLS",   <<>>,    TRUE),
         Field("Inner",  TNested,          "INNER",  <<>>,    TRUE),
         Field("hidden", TString,          "HIDDEN", <<>>,    FALSE) >>)

\* A struct with pointers and an anonymous struct type:
\* type Counted struct {
\*     Ref  *Nested                   `env:"REF"`
\*     Anon struct{ B int8 `env:"B"` } `env:"ANON"`
\*     Num  *int8                     `env:"NUM"`
\*     Mode foo                       `env:"MODE"`
\* }
TCounted ==
    StructOf("Counted",
      << Field("Ref",  PtrTo(TNested), "REF",  <<>>, TRUE),
         Field("Anon", TAnon,          "ANON", <<>>, TRUE),
         Field("Num",  PtrTo(TInt8),   "NUM",  <<>>, TRUE),
         Field("Mode", TFoo,           "MODE", <<>>, TRUE) >>)

\* A struct whose fields take each conversion strategy of set:
\* type Conv struct {
\*     Hosts []string `env:"HOSTS" envSeparator:":"`
\*     Mode  foo    `env:"MODE"`
\*     Lvl   textT  `env:"LVL"`
\*     Inner Nested `env:"INNER"`
\* }
TConv ==
    StructOf("Conv",
      << Field("Hosts", SliceOf(TString), "HOSTS", <<":">>, TRUE),
         Field("Mode",  TFoo,    "MODE",  <<>>, TRUE),
         Field("Lvl",   TText,   "LVL",   <<>>, TRUE),
         Field("Inner", TNested, "INNER", <<>>, TRUE) >>)

RECURSIVE KeysOf(_)
\* The source keys of a type's fields, nested ones included.
KeysOf(t) ==
    CASE t.kind = "struct" ->
           UNION {{t.fields[i].key} \cup KeysOf(t.fields[i].type) : i \in 1..Len(t.fields)}
      [] t.kind \in {"ptr", "slice"} -> KeysOf(t.elem)
      [] OTHER -> {}

\* The position of the field called name in struct type t.
FieldIndex(t, name) == CHOOSE i \in 1..Len(t.fields) : t.fields[i].name = name

RECURSIVE ZeroOf(_)
\* reflect.Zero / reflect.New(t).Elem(): the zero value of a type.
ZeroOf(t) ==
    CASE t.kind \in IntKinds -> Zero
      [] t.kind = "bool" -> FALSE
      [] t.kind = "struct" -> [i \in 1..Len(t.fields) |-> ZeroOf(t.fields[i].type)]
      [] OTHER -> <<>>

\* int8 values used in the initial states and in JSON numbers.
I8(d) == [neg |-> FALSE, mag |-> <<d>>]

-----------------------------------------------------------------------------
(* Caller-supplied code: the text-unmarshaling type and the custom parsers *)

\* Whether *t implements encoding.TextUnmarshaler.
ImplementsTextUnmarshaler(t) == t.name = "textT"

Contains(s, c) == \E i \in 1..Len(s) : s[i] = c

\* (*textT).UnmarshalText: rejects text holding '!', else stores "~"+text.
UnmarshalText(data) ==
    IF Contains(data, "!") THEN [err |-> "text", val |-> <<>>]
    ELSE [err |-> "none", val |-> <<"~">> \o data]

\* The parser functions a caller registers in a funcMap, by name:
\* "mark" returns "#"+v converted to the destination type, "fail" an error.
CustomParserIds == {"mark", "fail"}

\* Calling a ParserFunc of a type-parser map.  The two built-in entries
\* (url.URL, time.Duration) are keyed by types no modelled field has.
ApplyParser(id, v) ==
    CASE id = "mark" -> [err |-> "none", val |-> <<"#">> \o v]
      [] id = "fail" -> [err |-> "custom", val |-> <<>>]
      [] OTHER -> [err |-> "custom", val |-> <<>>]

\* The initial content of defaultTypeParsers, conf.go:78-93.
DefaultTypeParsersInit == [t \in {"url.URL", "time.Duration"} |->
                              IF t = "url.URL" THEN "url" ELSE "duration"]

\* for k, v := range funcMap { parsers[k] = v }
Merge(parsers, funcMap) ==
    [k \in DOMAIN parsers \cup DOMAIN funcMap |->
        IF k \in DOMAIN funcMap THEN funcMap[k] ELSE parsers[k]]

-----------------------------------------------------------------------------
(* strings.Split and the JSON-object decoding of set.                      *)

\* strings.Index: the first position where sep occurs in s, 0 when none.
Index(s, sep) ==
    LET hits == {i \in 1..(Len(s) - Len(sep) + 1) :
                    SubSeq(s, i, i + Len(sep) - 1) = sep}
    IN  IF hits = {} THEN 0 ELSE CHOOSE i \in hits : \A j \in hits : i <= j

RECURSIVE Split(_, _)
\* strings.Split(s, sep) for a non-empty sep.
Split(s, sep) ==
    LET i == Index(s, sep)
    IN  IF i = 0 THEN <<s>>
        ELSE <<SubSeq(s, 1, i - 1)>> \o Split(SubSeq(s, i + Len(sep), Len(s)), sep)

Letters == {"A", "B", "a", "b", "c", "x", "y"}

\* The JSON texts the model decodes: {} , {"K":d} and {"K":"c"} with K a
\* one-letter key, d one digit and c one letter.  Every other text a modelled
\* provider returns is not a JSON object, as for encoding/json.
JSONEmpty(s) == s = <<"{", "}">>
JSONNumMember(s) ==
    /\ Len(s) = 7
    /\ s[1] = "{" /\ s[2] = "\"" /\ s[3] \in Letters /\ s[4] = "\"" /\ s[5] = ":"
    /\ s[6] \in Digits /\ s[7] = "}"
JSONStrMember(s) ==
    /\ Len(s) = 9
    /\ s[1] = "{" /\ s[2] = "\"" /\ s[3] \in Letters /\ s[4] = "\"" /\ s[5] = ":"
    /\ s[6] = "\"" /\ s[7] \in Letters /\ s[8] = "\"" /\ s[9] = "}"

\* json.Valid(valBytes) && isJSONObj(valBytes), conf.go:220 and 235-238.
isJSONObj(s) == JSONEmpty(s) \/ JSONNumMember(s) \/ JSONStrMember(s)

\* encoding/json matches a member to a field by name, ignoring case.
Upper(c) == CASE c = "a" -> "A" [] c = "b" -> "B" [] OTHER -> c
JSONKeyMatches(key, name) == name = key \/ name = Upper(key)

\* json.Unmarshal(valBytes, reflect.New(typee)): a fresh zero struct with the
\* member stored in the field it names; a member of the wrong JSON type for
\* its field is an error, a member naming no exported field is dropped.
JSONUnmarshal(s, typee) ==
    LET zero == ZeroOf(typee)
        hit == {i \in 1..Len(typee.fields) :
                  /\ ~JSONEmpty(s)
                  /\ typee.fields[i].exported
                  /\ JSONKeyMatches(s[3], typee.fields[i].name)}
    IN  IF hit = {} THEN [err |-> NoErr, val |-> zero]
        ELSE LET i == CHOOSE j \in hit : TRUE
                 k == typee.fields[i].type.kind
             IN  IF JSONNumMember(s) /\ k \in IntKinds
                 THEN [err |-> NoErr,
                       val |-> [zero EXCEPT ![i] = I8(DigitVal(s[6]))]]
                 ELSE IF JSONStrMember(s) /\ k = "string"
                 THEN [err |-> NoErr, val |-> [zero EXCEPT ![i] = <<s[7]>>]]
                 ELSE [err |-> JSONErr, val |-> zero]

-----------------------------------------------------------------------------
(* Providers.  A provider answers every field from one of two value tables *)
(* ("A", "B") or with the empty string ("E"), except at one key where it   *)
(* may fail or answer a text the field's type cannot take.                 *)

NoProv == [base |-> "-", fkey |-> "", fkind |-> "none"]

BaseVal(base, key) ==
    CASE base = "E" -> <<>>
      [] key = "PORT"  -> IF base = "A" THEN <<"8", "0">> ELSE <<"9">>
      [] key = "NUM"   -> IF base = "A" THEN <<"7">> ELSE <<"-", "8">>
      [] key = "HOSTS" -> IF base = "A" THEN <<"a", ":", "b">> ELSE <<"c", ",", "a">>
      [] key = "LVLS"  -> IF base = "A" THEN <<"a", ",", "b">> ELSE <<"c">>
      [] key = "MODE"  -> IF base = "A" THEN <<"x">> ELSE <<"y">>
      [] key = "LVL"   -> IF base = "A" THEN <<"a">> ELSE <<"b">>
      [] key = "INNER" -> IF base = "A" THEN <<>>
                          ELSE <<"{", "\"", "A", "\"", ":", "2", "}">>
      [] key = "REF"   -> IF base = "A" THEN <<>>
                          ELSE <<"{", "\"", "a", "\"", ":", "4", "}">>
      [] key = "A"     -> IF base = "A" THEN <<"1">> ELSE <<"3">>
      [] key = "B"     -> IF base = "A" THEN <<"5">> ELSE <<"6">>
      [] OTHER -> <<>>

\* A text the field behind key cannot be converted from.
BadVal(key) ==
    CASE key = "PORT"  -> <<"1", "2", "8">>
      [] key = "NUM"   -> <<"x">>
      [] key = "LVLS"  -> <<"a", ",", "!">>
      [] key = "LVL"   -> <<"!">>
      [] key = "INNER" -> <<"n", "j">>
      [] key = "REF"   -> <<"{", "\"", "A", "\"", ":", "\"", "x", "\"", "}">>
      [] key = "A"     -> <<"-", "1", "2", "9">>

ErrKeys == {"PORT", "HOSTS", "LVLS", "A", "REF", "B"}
BadKeys == {"PORT", "NUM", "LVLS", "LVL", "INNER", "REF", "A"}

\* The providers tried on a target of type t: a fault only at a key of t.
Providers(t) ==
    {[base |-> b, fkey |-> "", fkind |-> "none"] : b \in {"A", "B", "E"}}
    \cup {[base |-> b, fkey |-> k, fkind |-> "err"] :
             b \in {"A", "B"}, k \in ErrKeys \cap KeysOf(t)}
    \cup {[base |-> b, fkey |-> k, fkind |-> "bad"] :
             b \in {"A", "B"}, k \in BadKeys \cap KeysOf(t)}

\* provider.Provide(refTypeField): (value, err).
Provide(p, sf) ==
    IF p.fkey = sf.key /\ p.fkind = "err"
    THEN [val |-> <<>>, err |-> ProviderErr(sf.key)]
    ELSE IF p.fkey = sf.key /\ p.fkind = "bad"
    THEN [val |-> BadVal(sf.key), err |-> NoErr]
    ELSE [val |-> BaseVal(p.base, sf.key), err |-> NoErr]

-----------------------------------------------------------------------------
(* set, handleSlice, asTextUnmarshaler, parseTextUnmarshalers.             *)
(* Each returns the error, the field's value afterwards and, as a record   *)
(* of the path taken, the conversion strategy that was chosen.             *)

\* The field after asTextUnmarshaler, conf.go:282-285: a nil pointer field
\* is allocated before the interface check.
Allocated(fv, t) == IF t.kind = "ptr" /\ fv = <<>> THEN <<ZeroOf(t.elem)>> ELSE fv

\* asTextUnmarshaler(field) # nil: the pointer field's type, or the address
\* of an addressable field, implements encoding.TextUnmarshaler.
asTextUnmarshaler(t) ==
    IF t.kind = "ptr" THEN ImplementsTextUnmarshaler(t.elem)
    ELSE ImplementsTextUnmarshaler(t)

\* Storing x through fieldee: into the pointee of a pointer field, else
\* into the field itself (conf.go:190-195).
StoreIn(t, x) == IF t.kind = "ptr" THEN <<x>> ELSE x

Elemee(t) == IF t.kind = "ptr" THEN t.elem ELSE t

\* The slice stored into the field, conf.go:264-277 and 300-318: a slice made
\* for this call, holding the converted parts and nothing else.
NewSlice_Appending(fv, elems) == fv \o elems

NewSlice(fv, elems) == elems

\* parseTextUnmarshalers, conf.go:297-321.
parseTextUnmarshalers(fv, data, sf) ==
    LET rs == [i \in 1..Len(data) |-> UnmarshalText(data[i])]
    IN  IF \E i \in 1..Len(data) : rs[i].err # "none"
        THEN [err |-> newParseError(sf, "text"), val |-> fv, how |-> "slice"]
        ELSE [err |-> NoErr,
              val |-> NewSlice(fv, [i \in 1..Len(data) |->
                                       StoreIn(sf.type.elem, rs[i].val)]),
              how |-> "slice"]

\* The parser handleSlice picks for the element type, conf.go:256-262.
SliceParser(typee, funcMap, part) ==
    IF typee.name \in DOMAIN funcMap THEN ApplyParser(funcMap[typee.name], part)
    ELSE defaultBuiltInParsers(typee.kind, part)

\* handleSlice, conf.go:240-279.
handleSlice(fv, value, sf, funcMap) ==
    LET separator == IF sf.sep = <<>> THEN <<",">> ELSE sf.sep
        parts == Split(value, separator)
        typee == Elemee(sf.type.elem)
        rs == [i \in 1..Len(parts) |-> SliceParser(typee, funcMap, parts[i])]
    IN  IF ImplementsTextUnmarshaler(typee)
        THEN parseTextUnmarshalers(fv, parts, sf)
        ELSE IF typee.name \notin DOMAIN funcMap /\ typee.kind \notin BuiltInKinds
        THEN [err |-> newNoParserError(sf), val |-> fv, how |-> "slice"]
        ELSE IF \E i \in 1..Len(parts) : rs[i].err # "none"
        THEN [err |-> newParseError(sf, "part"), val |-> fv, how |-> "slice"]
        ELSE [err |-> NoErr,
              val |-> NewSlice(fv, [i \in 1..Len(parts) |->
                                       StoreIn(sf.type.elem, rs[i].val)]),
              how |-> "slice"]

\* set with the custom parser tried before text-unmarshaling.
set_CustomBeforeText(fv, sf, value, funcMap) ==
    LET field == Allocated(fv, sf.type)
        typee == Elemee(sf.type)
        tm == UnmarshalText(value)
        custom == ApplyParser(funcMap[typee.name], value)
        builtin == defaultBuiltInParsers(typee.kind, value)
        decoded == JSONUnmarshal(value, typee)
    IN  IF sf.type.kind = "slice" THEN handleSlice(fv, value, sf, funcMap)
        ELSE IF typee.name \in DOMAIN funcMap
        THEN [err |-> newParseError(sf, custom.err),
              val |-> IF custom.err = "none" THEN StoreIn(sf.type, custom.val) ELSE field,
              how |-> "custom"]
        ELSE IF asTextUnmarshaler(sf.type)
        THEN [err |-> newParseError(sf, tm.err),
              val |-> IF tm.err = "none" THEN StoreIn(sf.type, tm.val) ELSE field,
              how |-> "text"]
        ELSE IF typee.kind \in BuiltInKinds
        THEN [err |-> newParseError(sf, builtin.err),
              val |-> IF builtin.err = "none" THEN StoreIn(sf.type, builtin.val) ELSE field,
              how |-> "builtin"]
        ELSE IF typee.kind = "struct" /\ isJSONObj(value)
        THEN [err |-> decoded.err,
              val |-> IF decoded.err = NoErr THEN StoreIn(sf.type, decoded.val) ELSE field,
              how |-> "json"]
        ELSE [err |-> newNoParserError(sf), val |-> field, how |-> "noparser"]

\* set, conf.go:178-233.
set(fv, sf, value, funcMap) ==
    LET field == Allocated(fv, sf.type)
        typee == Elemee(sf.type)
        tm == UnmarshalText(value)
        custom == ApplyParser(funcMap[typee.name], value)
        builtin == defaultBuiltInParsers(typee.kind, value)
        decoded == JSONUnmarshal(value, typee)
    IN  IF sf.type.kind = "slice" THEN handleSlice(fv, value, sf, funcMap)
        ELSE IF asTextUnmarshaler(sf.type)
        THEN [err |-> newParseError(sf, tm.err),
              val |-> IF tm.err = "none" THEN StoreIn(sf.type, tm.val) ELSE field,
              how |-> "text"]
        ELSE IF typee.name \in DOMAIN funcMap
        THEN [err |-> newParseError(sf, custom.err),
              val |-> IF custom.err = "none" THEN StoreIn(sf.type, custom.val) ELSE field,
              how |-> "custom"]
        ELSE IF typee.kind \in BuiltInKinds
        THEN [err |-> newParseError(sf, builtin.err),
              val |-> IF builtin.err = "none" THEN StoreIn(sf.type, builtin.val) ELSE field,
              how |-> "builtin"]
        ELSE IF typee.kind = "struct" /\ isJSONObj(value)
        THEN [err |-> decoded.err,
              val |-> IF decoded.err = NoErr THEN StoreIn(sf.type, decoded.val) ELSE field,
              how |-> "json"]
        ELSE [err |-> newNoParserError(sf), val |-> field, how |-> "noparser"]

-----------------------------------------------------------------------------
(* The walk: doParse and ParseWithFuncs.  A walk state holds the struct    *)
(* value being populated, the error so far, the log of visited fields and  *)
(* the content of the package-level type-parser map.                       *)

Entry(path, sf, old, val, out, err) ==
    [path |-> path, name |-> sf.name, asked |-> TRUE, old |-> <<old>>,
     val |-> val, out |-> out, err |-> err]

\* The entry of a nested ParseWithFuncs that refused its argument.
Refused(path) ==
    [path |-> path, name |-> "", asked |-> FALSE, old |-> <<>>,
     val |-> <<>>, out |-> "notstructptr", err |-> ErrNotAStructPtr]

\* if value == "", conf.go:163.
NoValue_Never(value) == FALSE

NoValue(value) == value = <<>>

\* The returns on an error, conf.go:146-148, 153-155, 160-162, 165-167 and
\* 171-173: the loop over the fields ends with the first error.
Aborted_Never(st) == FALSE

Aborted(st) == st.err # NoErr

RECURSIVE doParseFrom(_, _, _, _, _, _)
RECURSIVE ParseWithFuncsAt(_, _, _, _, _)

\* The result of a nested call stored back into field i of the walk state.
Into(st, i, r, unwrap) ==
    [val |-> [st.val EXCEPT ![i] = IF unwrap THEN r.val[1] ELSE r.val],
     err |-> r.err, log |-> r.log, parsers |-> r.parsers]

\* One iteration of doParse's loop, conf.go:140-173, for field i.
doParseField(i, st, refType, funcMap, provider, path) ==
    LET sf == refType.fields[i]
        fv == st.val[i]
        here == Append(path, i)
        answer == Provide(provider, sf)
        asked(out, err) ==
            [st EXCEPT !.log = Append(@, Entry(here, sf, fv, answer.val, out, err)),
                       !.err = err]
        done == set(fv, sf, answer.val, funcMap)
    IN  IF ~sf.exported THEN st
        ELSE IF sf.type.kind = "ptr" /\ fv # <<>>
        THEN Into(st, i, ParseWithFuncsAt([type |-> sf.type, val |-> fv],
                                          funcMap, provider, st, here), FALSE)
        ELSE IF sf.type.kind = "struct" /\ sf.type.name = ""
        THEN Into(st, i, ParseWithFuncsAt([type |-> PtrTo(sf.type), val |-> <<fv>>],
                                          <<>>, provider, st, here), TRUE)
        ELSE IF answer.err # NoErr
        THEN asked("provider-error", answer.err)
        ELSE IF NoValue(answer.val)
        THEN IF sf.type.kind = "struct"
             THEN Into(st, i, doParseFrom(1, [asked("recurse", NoErr) EXCEPT !.val = fv],
                                          sf.type, funcMap, provider, here), FALSE)
             ELSE asked("skip", NoErr)
        ELSE [asked(done.how, done.err) EXCEPT !.val[i] = done.val]

\* doParse, conf.go:136-176: the fields in declaration order, stopping at
\* the first error.
doParseFrom(i, st, refType, funcMap, provider, path) ==
    IF i > Len(refType.fields) \/ Aborted(st) THEN st
    ELSE doParseFrom(i + 1, doParseField(i, st, refType, funcMap, provider, path),
                     refType, funcMap, provider, path)

\* ParseWithFuncs, conf.go:120-134, on the value v = [type, val], reached at
\* path; st carries the log and the package-level map.  The result's val is
\* v's value afterwards.
ParseWithFuncsAt(v, funcMap, provider, st, path) ==
    LET parsers == Merge(st.parsers, funcMap)
        refuse == [val |-> v.val, err |-> ErrNotAStructPtr,
                   log |-> Append(st.log, Refused(path)),
                   parsers |-> st.parsers]
        walk == doParseFrom(1, [val |-> v.val[1], err |-> NoErr, log |-> st.log,
                                parsers |-> parsers],
                            v.type.elem, parsers, provider, path)
    IN  IF v.type.kind # "ptr" THEN refuse
        ELSE IF v.val = <<>> \/ v.type.elem.kind # "struct" THEN refuse
        ELSE [walk EXCEPT !.val = <<walk.val>>]

-----------------------------------------------------------------------------
(* The state machine of the populator: calls of Parse and ParseWithFuncs   *)
(* on one caller-owned target, sharing the package-level map.              *)

MaxProviders == 2

EmptyFuncMap == <<>>

\* The custom parser maps a caller passes to ParseWithFuncs.
FuncMaps ==
    {EmptyFuncMap,
     [t \in {"foo"} |-> "mark"],
     [t \in {"foo"} |-> "fail"],
     [t \in {"textT"} |-> "mark"],
     [t \in {"foo", "textT"} |-> "mark"]}

\* What the caller's structs may hold before the first call: all zero, or
\* some fields already set and the pointers already allocated.
InitialConfigs ==
    {ZeroOf(TConfig),
     [ZeroOf(TConfig) EXCEPT ![FieldIndex(TConfig, "Port")] = I8(5),
                             ![FieldIndex(TConfig, "Hosts")] = << <<"z">>, <<"w">> >>]}

InitialCounted ==
    {ZeroOf(TCounted),
     [ZeroOf(TCounted) EXCEPT ![FieldIndex(TCounted, "Ref")] = <<ZeroOf(TNested)>>],
     [ZeroOf(TCounted) EXCEPT ![FieldIndex(TCounted, "Num")] = <<I8(4)>>]}

\* The type of a target, by its Go name.
TypeNamed(n) ==
    CASE n = "*Config"  -> PtrTo(TConfig)
      [] n = "*Counted" -> PtrTo(TCounted)
      [] n = "*Conv"    -> PtrTo(TConv)
      [] n = "Config"   -> TConfig
      [] n = "*int8"    -> PtrTo(TInt8)
      [] n = "int8"     -> TInt8

\* Values that are not a non-nil pointer to a struct.
OtherTargetKinds == {"int", "struct", "nil-pointer", "pointer-to-int"}
OtherTarget(k) ==
    CASE k = "int" -> [type |-> "int8", val |-> I8(5)]
      [] k = "struct" -> [type |-> "Config", val |-> ZeroOf(TConfig)]
      [] k = "nil-pointer" -> [type |-> "*Config", val |-> <<>>]
      [] k = "pointer-to-int" -> [type |-> "*int8", val |-> <<I8(5)>>]

IsStructPtr(v) ==
    /\ TypeNamed(v.type).kind = "ptr"
    /\ v.val # <<>>
    /\ TypeNamed(v.type).elem.kind = "struct"

NumIdle == [kind |-> "", lit |-> <<>>, intSize |-> "none"]
NumNone == [err |-> NoErr, val |-> Zero, done |-> FALSE]
EnvIdle == [tag |-> <<>>, env |-> <<>>, default |-> <<>>, expand |-> <<>>]
EnvNone == [val |-> <<>>, err |-> NoErr, done |-> FALSE]

\* Everything but the target, before the first call.
InitRest ==
    /\ defaultTypeParsers = DefaultTypeParsersInit
    /\ pc = "idle"
    /\ nWalks = 0
    /\ cur = NoProv
    /\ prev = NoProv
    /\ ret = NoErr
    /\ log = <<>>
    /\ call = "none"
    /\ envIn = EnvIdle /\ envOut = EnvNone

Init ==
    /\ \/ \E c \in InitialConfigs : target = [type |-> "*Config", val |-> <<c>>]
       \/ \E c \in InitialCounted : target = [type |-> "*Counted", val |-> <<c>>]
       \/ \E k \in OtherTargetKinds : target = OtherTarget(k)
    /\ numIn = NumIdle /\ numOut = NumNone
    /\ InitRest

\* One top-level walk: ParseWithFuncs(target, funcMap, provider).
Walk(funcMap, provider) ==
    ParseWithFuncsAt([type |-> TypeNamed(target.type), val |-> target.val],
                     funcMap, provider,
                     [val |-> <<>>, err |-> NoErr, log |-> <<>>,
                      parsers |-> defaultTypeParsers], <<>>)

\* The providers of the calls on the current target.
TargetProviders ==
    Providers(Elemee(TypeNamed(target.type)))

\* Parse is entered: conf.go:101, before the first iteration.
ParseBegin ==
    /\ pc = "idle"
    /\ pc' = "parse"
    /\ call' = "Parse"
    /\ nWalks' = 0
    /\ cur' = NoProv
    /\ prev' = NoProv
    /\ ret' = NoErr
    /\ log' = <<>>
    /\ UNCHANGED <<target, defaultTypeParsers, numIn, numOut, envIn, envOut>>

\* One iteration of Parse's loop, conf.go:102-106, with the next provider of
\* the caller's list.
ParseStep(provider) ==
    /\ pc = "parse"
    /\ ret = NoErr
    /\ nWalks < MaxProviders
    /\ \E r \in {Walk(EmptyFuncMap, provider)} :
           /\ target' = [target EXCEPT !.val = r.val]
           /\ defaultTypeParsers' = r.parsers
           /\ ret' = r.err
           /\ log' = r.log
    /\ nWalks' = nWalks + 1
    /\ prev' = cur
    /\ cur' = provider
    /\ UNCHANGED <<pc, call, numIn, numOut, envIn, envOut>>

\* Parse returns: the error of the failed walk (conf.go:104), or nil once
\* the list is exhausted (conf.go:107).
ParseReturn ==
    /\ pc = "parse"
    /\ pc' = "idle"
    /\ UNCHANGED <<target, defaultTypeParsers, nWalks, cur, prev, ret, log, call,
                   numIn, numOut, envIn, envOut>>

\* A caller's ParseWithFuncs(target, funcMap, provider), conf.go:120-134.
ParseWithFuncs(funcMap, provider) ==
    /\ pc = "idle"
    /\ \E r \in {Walk(funcMap, provider)} :
           /\ target' = [target EXCEPT !.val = r.val]
           /\ defaultTypeParsers' = r.parsers
           /\ ret' = r.err
           /\ log' = r.log
    /\ call' = "ParseWithFuncs"
    /\ nWalks' = 1
    /\ prev' = NoProv
    /\ cur' = provider
    /\ UNCHANGED <<pc, numIn, numOut, envIn, envOut>>

\* Calls of Parse.
Next ==
    \/ ParseBegin
    \/ \E p \in TargetProviders : ParseStep(p)
    \/ ParseReturn

Spec == Init /\ [][Next]_vars

\* Calls of Parse and of ParseWithFuncs on a Conv.
InitFuncs ==
    /\ target = [type |-> "*Conv", val |-> <<ZeroOf(TConv)>>]
    /\ numIn = NumIdle /\ numOut = NumNone
    /\ InitRest

NextFuncs ==
    \/ ParseBegin
    \/ \E p \in TargetProviders : ParseStep(p)
    \/ ParseReturn
    \/ \E f \in FuncMaps, p \in TargetProviders : ParseWithFuncs(f, p)

SpecFuncs == InitFuncs /\ [][NextFuncs]_vars

-----------------------------------------------------------------------------
(* The built-in conversion of one integer field: set on a field of each    *)
(* integer kind, with the literals around every width's limits.            *)

NumLiterals ==
    {<<"0">>,
     <<"7">>,
     <<"-", "1">>,
     <<"+", "7">>,
     <<"x">>,
     <<"1", "x">>,
     <<"0", "0", "7">>,
     <<"1", "2", "7">>,
     <<"1", "2", "8">>,
     <<"-", "1", "2", "8">>,
     <<"-", "1", "2", "9">>,
     <<"2", "5", "5">>,
     <<"2", "5", "6">>,
     <<"3", "2", "7", "6", "7">>,
     <<"3", "2", "7", "6", "8">>,
     <<"-", "3", "2", "7", "6", "8">>,
     <<"-", "3", "2", "7", "6", "9">>,
     <<"6", "5", "5", "3", "5">>,
     <<"6", "5", "5", "3", "6">>,
     <<"2", "1", "4", "7", "4", "8", "3", "6", "4", "7">>,
     <<"2", "1", "4", "7", "4", "8", "3", "6", "4", "8">>,
     <<"-", "2", "1", "4", "7", "4", "8", "3", "6", "4", "8">>,
     <<"-", "2", "1", "4", "7", "4", "8", "3", "6", "4", "9">>,
     <<"4", "2", "9", "4", "9", "6", "7", "2", "9", "5">>,
     <<"4", "2", "9", "4", "9", "6", "7", "2", "9", "6">>,
     <<"9", "2", "2", "3", "3", "7", "2", "0", "3", "6", "8", "5", "4", "7", "7", "5", "8", "0", "7">>,
     <<"9", "2", "2", "3", "3", "7", "2", "0", "3", "6", "8", "5", "4", "7", "7", "5", "8", "0", "8">>,
     <<"-", "9", "2", "2", "3", "3", "7", "2", "0", "3", "6", "8", "5", "4", "7", "7", "5", "8", "0", "8">>,
     <<"-", "9", "2", "2", "3", "3", "7", "2", "0", "3", "6", "8", "5", "4", "7", "7", "5", "8", "0", "9">>,
     <<"1", "8", "4", "4", "6", "7", "4", "4", "0", "7", "3", "7", "0", "9", "5", "5", "1", "6", "1", "5">>,
     <<"1", "8", "4", "4", "6", "7", "4", "4", "0", "7", "3", "7", "0", "9", "5", "5", "1", "6", "1", "6">>}

\* The width of Go's int and uint on the platform the program is built for.
IntSizes == {"32-bit", "64-bit"}

NumField(kind) == Field("N", [kind |-> kind, name |-> kind], "N", <<>>, TRUE)

InitNum ==
    /\ numIn \in [kind : IntKinds, lit : NumLiterals, intSize : IntSizes]
    /\ numOut = NumNone
    /\ target = OtherTarget("int")
    /\ InitRest

\* set(field, sf, value, funcMap) on a zero field of kind numIn.kind.
SetNumeric ==
    /\ ~numOut.done
    /\ LET r == set(Zero, NumField(numIn.kind), numIn.lit, DefaultTypeParsersInit)
       IN  numOut' = [err |-> r.err, val |-> r.val, done |-> TRUE]
    /\ UNCHANGED <<target, defaultTypeParsers, pc, nWalks, cur, prev, ret, log, call,
                   numIn, envIn, envOut>>

NextNum == SetNumeric

SpecNum == InitNum /\ [][NextNum]_vars

-----------------------------------------------------------------------------
(* The environment provider, unnamed/part_001 (provider.go).               *)

Required == <<"r", "e", "q", "u", "i", "r", "e", "d">>
OptionTokens == {<<>>, Required, <<"f", "o", "o">>, <<"b", "a", "r">>}

MaxOpts == 3

\* The option lists of a tag, up to MaxOpts tokens.
OptionLists == UNION {[1..n -> OptionTokens] : n \in 0..MaxOpts}

RECURSIVE JoinOpts(_)
\* The text ",opt1,opt2..." that follows the key in the tag.
JoinOpts(opts) ==
    IF opts = <<>> THEN <<>> ELSE <<",">> \o Head(opts) \o JoinOpts(Tail(opts))

\* The tag `env:"K,opt1,opt2"`.
TagOf(opts) == <<"K">> \o JoinOpts(opts)

\* parseKeyForOption, part_001:61-64.
parseKeyForOption(tag) ==
    LET opts == Split(tag, <<",">>)
    IN  [key |-> Head(opts), opts |-> Tail(opts)]

\* os.LookupEnv: the environment holds at most the variable K; env is <<>>
\* when it is unset and <<value>> when it is set.
LookupEnv(env, key) ==
    IF key = <<"K">> /\ env # <<>> THEN [val |-> env[1], ok |-> TRUE]
    ELSE [val |-> <<>>, ok |-> FALSE]

\* getOr, part_001:53-59.
getOr(env, key, defaultValue) ==
    IF LookupEnv(env, key).ok THEN LookupEnv(env, key).val ELSE defaultValue

\* getRequired, part_001:66-71.
getRequired(env, key) ==
    IF LookupEnv(env, key).ok
    THEN [val |-> LookupEnv(env, key).val, err |-> NoErr]
    ELSE [val |-> <<>>, err |-> [kind |-> "required", field |-> key]]

\* os.ExpandEnv on the texts of the model: "$K" is replaced by K's value,
\* a text without '$' is returned as it is.
ExpandEnv(env, val) ==
    IF val = <<"$", "K">> THEN LookupEnv(env, <<"K">>).val ELSE val

RECURSIVE ProvideOpts(_, _, _, _)
\* The loop over the options, part_001:37-47.
ProvideOpts(opts, env, key, acc) ==
    IF opts = <<>> THEN acc
    ELSE LET opt == Head(opts)
             next == IF opt = <<>> THEN acc
                     ELSE IF opt = Required THEN getRequired(env, key)
                     ELSE [acc EXCEPT !.err = [kind |-> "unsupported", field |-> opt]]
         IN  ProvideOpts(Tail(opts), env, key, next)

\* envProvider.Provide, part_001:22-51.
envProvide(in) ==
    LET ko == parseKeyForOption(in.tag)
        val == getOr(in.env, ko.key, in.default)
        expanded == IF in.expand = <<"t", "r", "u", "e">>
                    THEN ExpandEnv(in.env, val) ELSE val
    IN  ProvideOpts(ko.opts, in.env, ko.key, [val |-> expanded, err |-> NoErr])

InitEnv ==
    /\ \E opts \in OptionLists, env \in {<<>>, << <<>> >>, << <<"v">> >>},
          def \in {<<>>, <<"d">>, <<"$", "K">>},
          expand \in {<<>>, <<"t", "r", "u", "e">>} :
          envIn = [tag |-> TagOf(opts), env |-> env, default |-> def, expand |-> expand]
    /\ envOut = EnvNone
    /\ numIn = NumIdle /\ numOut = NumNone
    /\ target = OtherTarget("int")
    /\ defaultTypeParsers = DefaultTypeParsersInit
    /\ pc = "idle" /\ nWalks = 0 /\ cur = NoProv /\ prev = NoProv /\ ret = NoErr /\ log = <<>>
    /\ call = "none"

\* One call of Provide on a field carrying the tag.
CallProvide ==
    /\ ~envOut.done
    /\ LET r == envProvide(envIn)
       IN  envOut' = [val |-> r.val, err |-> r.err, done |-> TRUE]
    /\ UNCHANGED <<target, defaultTypeParsers, pc, nWalks, cur, prev, ret, log, call,
                   numIn, numOut, envIn>>

NextEnv == CallProvide

SpecEnv == InitEnv /\ [][NextEnv]_vars

-----------------------------------------------------------------------------
(* Reading the target and the log.                                         *)

RECURSIVE FieldAt(_, _, _)
\* The value of the field at path in struct value v of struct type t; a
\* pointer on the way is followed.
FieldAt(v, t, path) ==
    LET f == t.fields[path[1]]
        fv == v[path[1]]
    IN  IF Len(path) = 1 THEN fv
        ELSE IF f.type.kind = "ptr" THEN FieldAt(fv[1], f.type.elem, Tail(path))
        ELSE FieldAt(fv, f.type, Tail(path))

\* The struct type the target points to.
TargetStruct == TypeNamed(target.type).elem

\* The field at path in the struct the target points to.
Now(path) == FieldAt(target.val[1], TargetStruct, path)

RECURSIVE DescAt(_, _)
\* The descriptor of the field at path in struct type t.
DescAt(t, path) ==
    LET f == t.fields[path[1]]
    IN  IF Len(path) = 1 THEN f ELSE DescAt(Elemee(f.type), Tail(path))

Entries == {log[k] : k \in 1..Len(log)}

\* The field descriptor an entry was logged for.
EntryField(e) == DescAt(TargetStruct, e.path)

Strategies == {"slice", "text", "custom", "builtin", "json", "noparser"}

-----------------------------------------------------------------------------
(* C8, C9: the built-in numeric parsers and the environment provider.      *)

\* A decimal literal: an optional minus sign and digits, no leading zero.
IsDecimalLiteral(s) ==
    LET d == IF s # <<>> /\ s[1] = "-" THEN Tail(s) ELSE s
    IN  /\ d # <<>>
        /\ IsDigits(d)
        /\ (Len(d) > 1 => d[1] # "0")
        /\ ~(s[1] = "-" /\ d = <<"0">>)

\* The number of bits of a value of the kind on the platform.
TypeBits(kind, intSize) ==
    CASE kind \in {"int8", "uint8"} -> 8
      [] kind \in {"int16", "uint16"} -> 16
      [] kind \in {"int32", "uint32"} -> 32
      [] kind \in {"int64", "uint64"} -> 64
      [] kind \in {"int", "uint"} -> IF intSize = "32-bit" THEN 32 ELSE 64

\* The literal's value lies within the range of the kind.
InRange(s, kind, intSize) ==
    LET neg == s[1] = "-"
        mag == Mag(IF neg THEN Tail(s) ELSE s)
        bits == TypeBits(kind, intSize)
    IN  IF kind \in UnsignedKinds THEN ~neg /\ ~MagLess(MaxUint(bits), mag)
        ELSE IF neg THEN ~MagLess(Cutoff(bits), mag)
        ELSE MagLess(mag, Cutoff(bits))

\* C8: for every integer kind, a decimal literal is accepted exactly when it
\* lies within the range of the destination type; an accepted literal
\* leaves the field equal to the parsed value, and a literal outside the
\* range yields a parse error naming the field.
C8_DestinationWidth ==
    (numOut.done /\ IsDecimalLiteral(numIn.lit)) =>
        LET inRange == InRange(numIn.lit, numIn.kind, numIn.intSize)
            neg == numIn.lit[1] = "-"
        IN  /\ (numOut.err = NoErr) <=> inRange
            /\ inRange => numOut.val = [neg |-> neg,
                                        mag |-> Mag(IF neg THEN Tail(numIn.lit)
                                                    ELSE numIn.lit)]
            /\ ~inRange => numOut.err = [kind |-> "parse", field |-> "N"]

\* The option tokens of the tag given to Provide.
TagOptions == Tail(Split(envIn.tag, <<",">>))

Unsupported(opts) ==
    {opts[i] : i \in {j \in 1..Len(opts) : opts[j] \notin {<<>>, Required}}}

\* C9: whenever the option list of the tag holds a token other than
\* "required" or the empty token, at any position and whether or not the
\* variable is set, Provide returns an error naming the unsupported token.
C9_UnsupportedTokenNamed ==
    (envOut.done /\ Unsupported(TagOptions) # {}) =>
        /\ envOut.err.kind = "unsupported"
        /\ envOut.err.field \in Unsupported(TagOptions)

-----------------------------------------------------------------------------
(* C1, C3, C4, C10: statements the code does not meet.                     *)

\* The top-level fields of the target's struct type.
TopFields == TargetStruct.fields

Faultless(p) == p.fkind = "none" /\ p.base \in {"A", "B"}

\* What set makes of value v in a fresh field of sf's type.
Converted(sf, v) == set(ZeroOf(sf.type), sf, v, defaultTypeParsers)

\* Both providers resolve field sf to non-empty, convertible, different values.
BothResolve(sf) ==
    /\ sf.exported
    /\ Provide(prev, sf).val # <<>>
    /\ Provide(cur, sf).val # <<>>
    /\ Provide(prev, sf).val # Provide(cur, sf).val
    /\ Converted(sf, Provide(prev, sf).val).err = NoErr
    /\ Converted(sf, Provide(cur, sf).val).err = NoErr

\* C1: last provider wins.  After Parse(target, P1, P2) with two providers
\* that resolve a settable field of a convertible type (pointer-typed fields
\* included) to different non-empty convertible values, Parse has returned
\* no error and the field equals the conversion of P2's value.
C1_LastProviderWins ==
    (/\ pc = "idle" /\ call = "Parse" /\ nWalks = 2
     /\ IsStructPtr(target)
     /\ Faultless(prev) /\ Faultless(cur)) =>
        \A i \in 1..Len(TopFields) :
            BothResolve(TopFields[i]) =>
                /\ ret = NoErr
                /\ Now(<<i>>) = Converted(TopFields[i], Provide(cur, TopFields[i]).val).val

\* C3: for a target that is not a non-nil pointer to a struct and a list of
\* providers of any length, Parse returns ErrNotAStructPtr and no provider
\* is queried.
C3_NotAStructPtr ==
    (pc = "idle" /\ call = "Parse" /\ ~IsStructPtr(target)) =>
        /\ ret = ErrNotAStructPtr
        /\ \A e \in Entries : ~e.asked

\* C4: no call mutates the shared default type-parser map, so a call of
\* Parse, which supplies no custom parser, converts a field of a type
\* without a default type parser with the built-in parser of its kind.
C4_DefaultMapUntouched ==
    /\ defaultTypeParsers = DefaultTypeParsersInit
    /\ call = "Parse" =>
          \A e \in Entries :
              (e.asked /\ e.val # <<>> /\ EntryField(e).type.name = "foo") =>
                  e.out = "builtin"

\* C10: only pointer-to-struct fields are recursed into.  A non-nil pointer
\* to a non-struct is resolved through the provider, and the walk does not
\* end with ErrNotAStructPtr because of such a field: no nested
\* ParseWithFuncs refuses a field of a struct.
C10_PointerToNonStructResolved ==
    \A e \in Entries : e.out = "notstructptr" => e.path = <<>>

-----------------------------------------------------------------------------
(* C2, C5, C6, C7: statements the code meets.                              *)

\* Path a comes before path b in the depth-first declaration order.
PathBefore(a, b) ==
    \/ Len(a) < Len(b) /\ SubSeq(b, 1, Len(a)) = a
    \/ \E k \in 1..Len(a) :
          /\ k <= Len(b)
          /\ a[k] < b[k]
          /\ \A j \in 1..(k - 1) : a[j] = b[j]

\* The struct type reached by a path prefix (<<>> is the target's struct).
StructTypeAt(prefix) ==
    IF prefix = <<>> THEN TargetStruct ELSE Elemee(DescAt(TargetStruct, prefix).type)

\* The steps of a walk that failed, read from the state before (unprimed)
\* and after (primed) the walk.
FailedWalk ==
    LET n == Len(log')
        fp == log'[n].path
    IN  /\ n > 0
        \* the error returned is the error of the last field visited
        /\ log'[n].err = ret'
        \* every field visited before it raised no error, and the fields
        \* were visited in declaration order
        /\ \A k \in 1..(n - 1) :
              log'[k].err = NoErr /\ PathBefore(log'[k].path, log'[k + 1].path)
        \* no field later in declaration order was written
        /\ \A d \in 1..Len(fp) :
              \A i \in (fp[d] + 1)..Len(StructTypeAt(SubSeq(fp, 1, d - 1)).fields) :
                  LET p == Append(SubSeq(fp, 1, d - 1), i)
                  IN  FieldAt(target'.val[1], TargetStruct, p)
                        = FieldAt(target.val[1], TargetStruct, p)
        \* every field written before the error keeps its written value
        /\ \A k \in 1..(n - 1) :
              log'[k].out \in Strategies =>
                  FieldAt(target'.val[1], TargetStruct, log'[k].path)
                    = set(log'[k].old[1], DescAt(TargetStruct, log'[k].path),
                          log'[k].val, defaultTypeParsers').val
        \* a top-level field the walk did not reach keeps what it held
        /\ \A i \in 1..Len(TargetStruct.fields) :
              (\A k \in 1..n : log'[k].path[1] # i) => target'.val[1][i] = target.val[1][i]

C2_Step ==
    \* once a walk has failed, Parse returns that error: no further walk,
    \* no further query, no change of the target
    /\ (pc = "parse" /\ ret # NoErr) =>
          /\ pc' = "idle"
          /\ ret' = ret
          /\ UNCHANGED <<target, log, nWalks, cur, defaultTypeParsers>>
    \* the error a walk returns is the first error raised in it
    /\ (pc = "parse" /\ nWalks' = nWalks + 1 /\ IsStructPtr(target)) =>
          /\ ret' # NoErr => FailedWalk
          /\ ret' = NoErr => \A k \in 1..Len(log') : log'[k].err = NoErr

\* C2: first error is terminal.  When the walk for a provider returns an
\* error, Parse returns exactly that error, no later provider is queried,
\* no field later in declaration order is queried or written in that walk,
\* and every field written before the error keeps its written value.
C2_FirstErrorTerminal == [][C2_Step]_vars

\* A Parse call whose second walk failed at a provider error after it had
\* written a field.
C2_Witness ==
    /\ pc = "idle" /\ call = "Parse" /\ nWalks = 2
    /\ ret.kind = "provider"
    /\ Len(log) >= 2
    /\ log[1].out \in Strategies

\* The strategy the precedence order picks for field sf and a non-empty
\* value, given the type-parser map in effect.
Precedence(sf, value, funcMap) ==
    IF sf.type.kind = "slice" THEN "slice"
    ELSE IF ImplementsTextUnmarshaler(Elemee(sf.type)) THEN "text"
    ELSE IF Elemee(sf.type).name \in DOMAIN funcMap THEN "custom"
    ELSE IF Elemee(sf.type).kind \in BuiltInKinds THEN "builtin"
    ELSE IF Elemee(sf.type).kind = "struct" /\ isJSONObj(value) THEN "json"
    ELSE "noparser"

C6_EmptyMeansSkip ==
    \A k \in 1..Len(log) :
        LET e == log[k]
            sf == EntryField(e)
        IN  (e.asked /\ e.err.kind # "provider" /\ e.val = <<>>) =>
                /\ e.err = NoErr
                /\ IF sf.type.kind # "struct"
                   THEN e.out = "skip" /\ Now(e.path) = e.old[1]
                   ELSE /\ e.out = "recurse"
                        /\ k < Len(log)
                        /\ log[k + 1].path = Append(e.path, 1)
                        /\ log[k + 1].asked
                        /\ log[k + 1].val = Provide(cur, sf.type.fields[1]).val
                        /\ log[k + 1].old[1] = e.old[1][1]

\* A walk that skipped a field holding a non-zero value and went into a
\* struct field on an empty answer.
C6_Witness ==
    /\ \E e \in Entries :
          e.out = "skip" /\ e.old[1] # ZeroOf(EntryField(e).type)
    /\ \E e \in Entries : e.out = "recurse"

RECURSIVE Join(_, _)
\* strings.Join.
Join(parts, sep) ==
    IF Len(parts) = 1 THEN parts[1] ELSE parts[1] \o sep \o Join(Tail(parts), sep)

\* The conversion of one part of a slice value to the element type.
PartConverted(elem, part) ==
    IF ImplementsTextUnmarshaler(elem) THEN <<"~">> \o part ELSE part

\* C7: slice fields are replaced, never appended to.  After a walk has set
\* a slice field, the field is exactly the ordered sequence of the converted
\* parts of the resolved value split on the field's separator (a comma when
\* the tag is absent or empty); its length is the number of parts.
C7_SliceReplaced ==
    \A e \in Entries :
        LET sf == EntryField(e)
            sep == IF sf.sep = <<>> THEN <<",">> ELSE sf.sep
            parts == Split(e.val, sep)
        IN  (e.asked /\ e.val # <<>> /\ sf.type.kind = "slice" /\ e.err = NoErr) =>
                /\ Join(parts, sep) = e.val
                /\ \A i \in 1..Len(parts) : Index(parts[i], sep) = 0
                /\ Len(Now(e.path)) = Len(parts)
                /\ \A i \in 1..Len(parts) :
                      Now(e.path)[i] = PartConverted(sf.type.elem, parts[i])

\* The second walk of a Parse call replaced a slice of two elements by a
\* slice of one.
C7_Witness ==
    /\ nWalks = 2
    /\ \E e \in Entries :
          /\ e.out = "slice" /\ e.err = NoErr
          /\ Len(e.old[1]) = 2
          /\ Len(Now(e.path)) = 1

====
